---- MODULE Spec2Model ----
(***************************************************************************)
(* The TextArena game master of ta_integration: one session of a           *)
(* turn-based game, driven by setup(), play() and step(), on top of an     *)
(* environment (textarena) that the game master only reaches through       *)
(* reset / state.observations / state.current_player_id / step / close.    *)
(*                                                                         *)
(* Strings are modelled as sequences of fragments, so that the substring   *)
(* test of _check_move_validity and the line formatting of                 *)
(* _convert_obs_to_context are computed, not assumed.                      *)
(***************************************************************************)
EXTENDS Integers, Sequences, FiniteSets, TLC

\* ------------------------------------------------------------------ bounds

\* env.step calls made in one session
MaxSteps == 2

\* the events an environment appends in the sessions that follow the
\* observation wrapper alone
MaxEvents == 3

\* the calls of reward_for_player made on one close() result
MaxCalls == 2

\* the turns after which an environment ends its episode, at most
MaxTurns == 3

\* the env.step calls a session may make: one per player at least
StepLimit(n) == IF n > MaxSteps THEN n ELSE MaxSteps

\* --------------------------------------------------------- program values

\* the key of the "GM" entry of players_by_id; also TextArena's GAME sender id
GM_ID == -1

\* last_player before any player was invoked (Python's None)
None == -2

\* the substring _check_move_validity looks for
Marker == "attempted an invalid move"

\* STANDARD_GAME_PROMPT + "\n\n"
StandardGamePrompt == <<"STANDARD_GAME_PROMPT", "\n\n">>

\* the player counts TextArenaBenchmark knows a default master for
PlayerCounts == {1, 2}

\* a player count TextArenaBenchmark wants a master named for
MultiPlayerCounts == {3}

\* the master classes of submasters.py that differ in their setup hooks
Masters == {"SinglePlayerMaster", "MinesweeperMaster", "TwoPlayerMaster"}

\* the master classes a game of n players is run with
MastersFor(n) ==
    IF n = 1 THEN {"SinglePlayerMaster", "MinesweeperMaster"}
             ELSE {"TwoPlayerMaster"}

\* ------------------------------------------------------------- environment

\* message texts: a text is a sequence of fragments
PlainMsg  == <<"Your turn">>
MarkMsg   == <<"Player ", Marker, ". Reason: ...">>
PromptMsg == <<"You are playing a game">>

\* ObservationType.PLAYER_ACTION and the other kinds the model uses
PLAYER_ACTION == "PLAYER_ACTION"

VARIABLES
    numPlayers,                 \* len(self.player_models)
    master,                     \* the master class of the session
    pc,                         \* where the session's control is
    inHook,                     \* TRUE inside MinesweeperMaster._on_before_game
    observations,               \* env.state.observations: id -> list of events
    current_player_id,          \* env.state.current_player_id
    envDone,                    \* the environment has ended the episode
    logged_observation_count,   \* ClemObservationWrapper's delivery cursors
    players_by_id,              \* the keys of TextArenaGameMaster.players_by_id
    checked_observations,       \* the violation check's cursors
    request_violation,
    played_in_round,
    last_player,
    started,
    done,
    current_round,              \* advanced by log_next_round()
    violated_request_count,     \* advanced by count_request_violation()
    context,                    \* the context play() holds for the player
    response,                   \* the response play() holds for step()
    rewards,                    \* what env.close() returned: <<reward, details>>
    metrics,                    \* what _on_after_game logged with log_key
    delivered,                  \* id -> all lines delivered so far, in order
    deliveredIdx,               \* id -> list positions of the delivered lines
    observed,                   \* the ids env.observation was called for
    envSteps,                   \* env.step calls so far
    closeCalls,                 \* env.close calls that returned rewards
    lastStep,                   \* what the last step() call saw and did
    log,                        \* the calls made and entries logged, in order
    random_state,               \* the state of the process's `random` module
    ENV_REGISTRY,               \* textarena's registry: env id -> env specs
    sessions,                   \* the game masters of the process, by number
    benchmark,                  \* the TextArenaBenchmark last constructed
    instance_files,             \* the instance files in the package's in/
    files,                      \* the JSON files on disk: path -> content
    existing_results,           \* check_games' dict: game -> model -> verdict
    check                       \* the check_games call: arguments, position

envVars  == <<observations, current_player_id, envDone>>
gmVars   == <<players_by_id, checked_observations, request_violation,
              played_in_round, last_player, started, done, current_round,
              violated_request_count, rewards, metrics>>
obsVars  == <<logged_observation_count, delivered, deliveredIdx, observed>>
ctlVars  == <<numPlayers, master, pc, inHook, context, response>>
histVars == <<envSteps, closeCalls, lastStep>>
checkVars == <<files, existing_results, check>>
procVars == <<random_state, ENV_REGISTRY, sessions, benchmark, instance_files,
              checkVars>>
vars     == <<envVars, gmVars, obsVars, ctlVars, histVars, log, procVars>>

Players == 0 .. (numPlayers - 1)

\* env.state.role_mapping: the GAME sender and player 1 carry a role name
role_mapping == (GM_ID :> <<"GAME">>) @@ (1 :> <<"Bob">>)

\* ------------------------------------------------ ClemObservationWrapper

\* the role mapping never consulted
SenderNameNoMapping(sender_id) == <<"Player ", ToString(sender_id)>>

\* role_mapping.get(sender_id, f"Player {sender_id}")
SenderName(sender_id) ==
    IF sender_id \in DOMAIN role_mapping
        THEN role_mapping[sender_id]
        ELSE <<"Player ", ToString(sender_id)>>

\* f"[{sender_name}] {message}\n"
FormatLine(sender_id, message) ==
    <<"[", SenderName(sender_id), "] ", message, "\n">>

\* every event sent by the player itself skipped, whatever its kind
IsRenderedSkipsSender(player_id, ev) == ev[1] # player_id

\* whether the loop body of _convert_obs_to_context adds a line for the event
IsRendered(player_id, ev) ==
    IF ev[3] # PLAYER_ACTION
        THEN TRUE
        ELSE IF ev[1] = player_id THEN FALSE ELSE TRUE

\* the slice taken from the further of the two cursors: what the move check
\* has read is not delivered
UnseenAfterChecked(obs, count, player_id) ==
    LET from == IF checked_observations[player_id] > count[player_id]
                    THEN checked_observations[player_id] ELSE count[player_id]
    IN  SubSeq(obs[player_id], from + 1, Len(obs[player_id]))

\* observations[player_id][logged_observation_count[player_id]:]
UnseenObservations(obs, count, player_id) ==
    SubSeq(obs[player_id], count[player_id] + 1, Len(obs[player_id]))

\* the for loop of _convert_obs_to_context: the lines added to content
RECURSIVE ContentLines(_, _)
ContentLines(player_id, evs) ==
    IF evs = <<>> THEN <<>>
    ELSE LET ev == Head(evs)
         IN  IF IsRendered(player_id, ev)
                 THEN <<FormatLine(ev[1], ev[2])>> \o ContentLines(player_id, Tail(evs))
                 ELSE ContentLines(player_id, Tail(evs))

\* the list positions of the events the loop adds a line for
RECURSIVE RenderedPositions(_, _, _)
RenderedPositions(player_id, evs, base) ==
    IF evs = <<>> THEN <<>>
    ELSE IF IsRendered(player_id, Head(evs))
             THEN <<base + 1>> \o RenderedPositions(player_id, Tail(evs), base + 1)
             ELSE RenderedPositions(player_id, Tail(evs), base + 1)

\* the cursor left where it was
AdvanceCursorForgotten(count, seen) == count

\* the cursor moved one too far
AdvanceCursorOffByOne(count, seen) == count + Len(seen) + 1

\* logged_observation_count[player_id] += len(observations)
AdvanceCursor(count, seen) == count + Len(seen)

\* the content of the context dict _convert_obs_to_context returns: the
\* standard prompt on an initial call, then the lines
ContextContent(obs, count, player_id) ==
    [prompt |-> IF count[player_id] = 0 THEN StandardGamePrompt ELSE <<>>,
     lines  |-> ContentLines(player_id, UnseenObservations(obs, count, player_id))]

\* env.observation(player_id): the context, and the cursor moved; delivered
\* and deliveredIdx record what the returned context carried, observed whom
\* it was called for
Observation(player_id) ==
    LET seen == UnseenObservations(observations, logged_observation_count, player_id)
    IN  /\ context' = [role |-> "user",
                       content |-> ContextContent(observations,
                                                  logged_observation_count, player_id)]
        /\ logged_observation_count' =
               [logged_observation_count EXCEPT
                    ![player_id] = AdvanceCursor(@, seen)]
        /\ delivered' =
               [delivered EXCEPT ![player_id] = @ \o context'.content.lines]
        /\ deliveredIdx' =
               [deliveredIdx EXCEPT
                    ![player_id] = @ \o RenderedPositions(player_id, seen,
                                            logged_observation_count[player_id])]
        /\ observed' = observed \cup {player_id}

\* ------------------------------------------------- the environment's side

\* the events a step of the environment may add for the move of `actor`
StepEvents(actor, action) ==
    { <<actor, action, PLAYER_ACTION>>,
      <<GM_ID, PlainMsg, "GAME_MESSAGE">>,
      <<GM_ID, MarkMsg, "GAME_ADMIN">> }

\* add_observation(to_id=...): one player, or everybody for to_id = -1; in
\* a session of more than two players the environments considered address
\* the acting player only
Recipients(actor) ==
    IF numPlayers > 2 THEN {actor} ELSE {GM_ID} \cup Players

\* what one env.step may add: nothing, or one event for its recipients
Deliveries(actor, action) ==
    {<<>>} \cup (StepEvents(actor, action) \X Recipients(actor))

\* the observation lists after a delivery: lists only grow
Deliver(obs, d) ==
    IF d = <<>> THEN obs
    ELSE [p \in DOMAIN obs |->
            IF d[2] \in {GM_ID, p} THEN Append(obs[p], d[1]) ELSE obs[p]]

\* what env.step returns while the episode runs: the lists, the next
\* player and whether the episode ended
StepOutcomes(actor, action) ==
    [delivery : Deliveries(actor, action), next : Players, done : BOOLEAN]

\* the initial lists env.reset leaves: a prompt for a player, or nothing yet;
\* in a session of more than two players the environments considered treat
\* all players alike
ResetObservations ==
    IF numPlayers > 2
        THEN { [p \in Players |-> o] : o \in {<<>>, << <<GM_ID, PromptMsg, "PROMPT">> >>} }
        ELSE [Players -> {<<>>, << <<GM_ID, PromptMsg, "PROMPT">> >>}]

\* the numeric rewards env.close() returns
RewardMaps ==
    IF numPlayers = 1 THEN [Players -> {-1, 0, 1}]
    ELSE {r \in [Players -> {-1, 0, 1}] : r[0] + r[1] = 0}

\* the details env.close() returns: at most one player's move was invalid
DetailMaps ==
    { [p \in Players |-> [invalid_move |-> (p = bad),
                          reason |-> <<"reason for ", ToString(p)>>]]
        : bad \in Players \cup {None} }

\* what env.close() returns: (rewards, details)
CloseOutcomes == RewardMaps \X DetailMaps

\* what env.step does once the episode has ended is the environment's own
\* business: it raises, or it returns done again and changes nothing
AfterDoneOutcomes == {"raises", "returns"}

\* --------------------------------------------------------- the players

\* the first player's text, whoever answers
ResponseOfFirst(player_id) == <<"response of ", ToString(0)>>

\* the text a player answers with (its custom or generated response)
ResponseOf(player_id) == <<"response of ", ToString(player_id)>>

\* MinesweeperMaster._on_before_game: f"[{x} {y}]"
FauxResponse == <<"[", "rows//2", " ", "cols//2", "]">>

\* the GM entry's key added along with the player
MarkPlayedWithGM(played, ta_id) == played \cup {ta_id, GM_ID}

\* TextArenaPlayer.perceive_context: played_in_round.add(self.ta_id)
MarkPlayed(played, ta_id) == played \cup {ta_id}

\* ------------------------------------------------- TextArenaGameMaster

\* the message compared with the marker instead of searched for it
HasMarkerExact(message) == message = <<Marker>>

\* "attempted an invalid move" in str(observation[1])
HasMarker(message) == \E i \in DOMAIN message : message[i] = Marker

\* the player whose list _check_move_validity reads:
\* self.env.state.current_player_id, read after env.step
CheckedPlayer(actor, current_after) == current_after

\* observations[player_id][checked_observations:]
LastObservations(obs, checked, player_id) ==
    SubSeq(obs[player_id], checked[player_id] + 1, Len(obs[player_id]))

\* the loop of _check_move_validity: some observation carries the marker
MoveInvalid(last_observations) ==
    \E i \in DOMAIN last_observations :
        /\ last_observations[i] # <<>>
        /\ HasMarker(last_observations[i][2])

\* the GM entry of players_by_id counted as a player
StartNextRoundCountsGM(played, by_id, violation) ==
    Cardinality(played) = Cardinality(by_id) /\ ~violation

\* the round taken to be complete after two players, whatever their number
StartNextRoundAtTwo(played, by_id, violation) ==
    Cardinality(played) = 2 /\ ~violation

\* the violation flag not consulted
StartNextRoundIgnoresFlag(played, by_id, violation) ==
    Cardinality(played) = Cardinality(by_id) - 1

\* _start_next_round
StartNextRound(played, by_id, violation) ==
    Cardinality(played) = Cardinality(by_id) - 1 /\ ~violation

\* the flag step() holds when it asks _start_next_round
ViolationFlag(invalid) == invalid

\* ---------------------------------------------------- the process's state

\* the seeds of the game instances (instancegenerator: SEED + i)
Seeds == {1, 2, 3}

\* the env ids of the game instances: f"{game_name}-{experiment_name}"
EnvIds == {"game-easy", "game-hard"}

\* the env specs an instance asks to register: the episode's length
EnvSpecs == [max_turns : 1 .. MaxTurns]

\* an env id nothing was registered for
NotRegistered == [max_turns |-> 0]

\* the custom responses of the player specs
CustomResponses == <<"left", "right", "up">>

\* the states of the `random` module the model tells apart
RandomStates == 8

\* the global generator left as it is by setup()
SeededNot(state, seed) == state

\* random.seed(seed): the state is a function of the seed alone
Seeded(state, seed) == seed % RandomStates

\* the state of the `random` module after one draw
NextRandom(state) == (5 * state + 3) % RandomStates

\* random.choice(seq) in the state `state`
Choice(state, seq) == seq[(state % Len(seq)) + 1]

\* the registration of setup(): register_env set and the id not yet in
\* ENV_REGISTRY
Register(registry, env_id, env_specs) ==
    IF registry[env_id] = NotRegistered
        THEN [registry EXCEPT ![env_id] = env_specs]
        ELSE registry

\* whether the environment built from `env` ends the episode with the
\* move that made the list of actions `actions`
EpisodeEnds(env, actions) == Len(actions) >= env.max_turns

\* the game instances: what setup(**kwargs) is given
Instances == [seed : Seeds, env_id : EnvIds, env_specs : EnvSpecs]

\* a game master before setup(), for the instance it will be set up with
NewSession(instance) ==
    [instance |-> instance, started |-> FALSE, done |-> FALSE,
     env |-> NotRegistered, log |-> <<>>]

\* ------------------------------------------------------------------ Init

NoContext == [role |-> "none", content |-> [prompt |-> <<>>, lines |-> <<>>]]

\* the metric keys before anything was logged for them
NoMetrics == [aborted |-> None, success |-> None, lose |-> None]

NoStep == [kind |-> "none", actor |-> None, fresh |-> <<>>, done |-> FALSE]

\* the fields TextArenaGameMaster.__init__ sets, the same for every master
\* class and number of players
Constructed ==
    /\ pc = "new"
    /\ inHook = FALSE
    /\ observations = <<>>
    /\ current_player_id = None
    /\ envDone = FALSE
    /\ logged_observation_count = <<>>
    /\ players_by_id = {GM_ID}
    /\ checked_observations = <<>>
    /\ request_violation = FALSE
    /\ played_in_round = {}
    /\ last_player = None
    /\ started = FALSE
    /\ done = FALSE
    /\ current_round = 0
    /\ violated_request_count = 0
    /\ context = NoContext
    /\ response = <<>>
    /\ rewards = <<>>
    /\ metrics = NoMetrics
    /\ delivered = [p \in Players |-> <<>>]
    /\ deliveredIdx = [p \in Players |-> <<>>]
    /\ observed = {}
    /\ envSteps = 0
    /\ closeCalls = 0
    /\ lastStep = NoStep
    /\ log = <<>>

\* the state TextArenaGameMaster.__init__ leaves, for a benchmark whose
\* number of players is one of `counts`; the environment and its wrapper do
\* not exist yet
InitFor(counts) ==
    /\ numPlayers \in counts
    /\ master \in MastersFor(numPlayers)
    /\ Constructed

\* a key the game spec does not have
Absent == "absent"

\* an attribute __init__ has not assigned
Unselected == "unselected"

\* no benchmark constructed
NoBenchmark == [game_spec |-> <<>>, raised |-> "", master_class |-> Unselected,
                scorer_class |-> Unselected]

\* check_games was not called
NoCheck == [pc |-> "idle", model |-> "", game_specs |-> <<>>, out_file |-> "",
            overwrite |-> FALSE, next |-> 1, tested |-> <<>>]

NotChecking ==
    /\ existing_results = <<>>
    /\ check = NoCheck

\* no benchmark constructed, no instance file there, no results file
NothingBuilt ==
    /\ benchmark = NoBenchmark
    /\ instance_files = {}
    /\ files = <<>>
    /\ NotChecking

\* the process before any session was set up in it: nothing registered
NoProcess ==
    /\ random_state = 0
    /\ ENV_REGISTRY = [i \in EnvIds |-> NotRegistered]
    /\ sessions = <<>>
    /\ NothingBuilt

\* a benchmark of 1 or 2 players, run with its default master
Init == InitFor(PlayerCounts) /\ NoProcess

\* a benchmark of any of the player counts, the master of one of more than
\* two players named in the game spec
InitMulti == InitFor(PlayerCounts \cup MultiPlayerCounts) /\ NoProcess

\* --------------------------------------------------------------- actions

\* ---- the calls and log entries of setup() and _after_game(), in order

\* an entry of the log: the call made, the key or addressee it names, and
\* the value passed
Entry(call, key, value) == [call |-> call, key |-> key, value |-> value]

\* who calls step(): _on_before_game during setup(), the loop of play(), or
\* a caller of step() itself
Caller ==
    IF inHook THEN "_on_before_game"
    ELSE IF pc = "step" THEN "play" ELSE "step"

\* done, info = self.env.step(action=response)
EnvStepCall(action) == Entry("env.step", Caller, action)

\* self.request_violation = self._check_move_validity()
CheckCall == Entry("_check_move_validity", "", <<>>)

\* player, context = self.observe()
ObserveCall(player_id) == Entry("observe", "", player_id)

\* response = player(context) in play(); player.perceive_context(context)
\* in _on_before_game
PlayerCall(player_id) ==
    Entry(IF inHook THEN "perceive_context" ELSE "player", "", player_id)

\* rewards = self.env.close()
EnvCloseCall == Entry("env.close", "", <<>>)

\* the ids of a set in increasing order: the order add_player was called in
RECURSIVE InOrder(_)
InOrder(ids) ==
    IF ids = {} THEN <<>>
    ELSE LET least == CHOOSE i \in ids : \A j \in ids : i <= j
         IN  <<least>> \o InOrder(ids \ {least})

\* the calls of setup() with the environment never reset
SetupCallsNoReset(registered) ==
    << Entry("ta.make", "", <<>>),
       Entry("ClemObservationWrapper", "", <<>>),
       Entry("_on_before_reset", "", <<>>) >>
    \o [k \in 1 .. Cardinality(registered) |->
            Entry("add_player", "", InOrder(registered)[k])]
    \o << Entry("_on_before_game", "", <<>>) >>

\* the calls of setup(), in the order of its statements
SetupCalls(registered) ==
    << Entry("ta.make", "", <<>>),
       Entry("ClemObservationWrapper", "", <<>>),
       Entry("_on_before_reset", "", <<>>),
       Entry("env.reset", "", <<>>) >>
    \o [k \in 1 .. Cardinality(registered) |->
            Entry("add_player", "", InOrder(registered)[k])]
    \o << Entry("_on_before_game", "", <<>>) >>

\* the end-of-game message made of the first agent's reason
LastMessageOfFirst(close_rewards, last) == <<"[GAME] ">> \o close_rewards[2][0].reason

\* the end-of-game message: '[GAME] ' + rewards[1][self.last_player]['reason']
LastMessage(close_rewards, last) == <<"[GAME] ">> \o close_rewards[2][last].reason

\* rewards[1] after the loop of _after_game: player_rewards['reward'] =
\* rewards[0][player_id] is written into the details of every player added
WithReward(close_rewards) ==
    [p \in DOMAIN close_rewards[2] |->
        IF p \in players_by_id \ {GM_ID}
            THEN [invalid_move |-> close_rewards[2][p].invalid_move,
                  reason       |-> close_rewards[2][p].reason,
                  reward       |-> close_rewards[1][p]]
            ELSE close_rewards[2][p]]

\* the calls and log entries of _after_game() when it runs to its end, in
\* the order of its statements
AfterGameCalls(close_rewards, last, current, logged_metrics) ==
    << EnvCloseCall,
       Entry("log_event", ToString(current), LastMessage(close_rewards, last)) >>
    \o [k \in 1 .. Cardinality(players_by_id \ {GM_ID}) |->
            Entry("log_to_self", "rewards", InOrder(players_by_id \ {GM_ID})[k])]
    \o << Entry("log_key", "ta_reward", close_rewards[1]),
          Entry("log_key", "ta_reward_details", WithReward(close_rewards)),
          Entry("_on_after_game", "", logged_metrics),
          Entry("log_game_end", "", <<>>) >>

\* the lengths of the player_specs of an instance; 0: none given
PlayerSpecCounts == 0 .. 2

\* the ids setup() adds a player for: enumerate(zip(player_specs,
\* self.player_models)), player_specs replaced by one dummy spec per model
\* when it is absent or empty
RegisteredIds(n_specs, n_models) ==
    IF n_specs = 0 THEN 0 .. (n_models - 1)
    ELSE IF n_specs < n_models THEN 0 .. (n_specs - 1)
    ELSE 0 .. (n_models - 1)

\* setup() for an instance with n_specs player_specs: the wrapper is built,
\* the environment reset, the players added; MinesweeperMaster's
\* _on_before_game then plays one forced turn
SetupWith(n_specs) ==
    /\ pc = "new"
    /\ started' = TRUE
    /\ logged_observation_count' = [i \in 0 .. (numPlayers - 1) |-> 0]
    /\ observations' \in ResetObservations
    /\ current_player_id' \in Players
    /\ players_by_id' = players_by_id \cup RegisteredIds(n_specs, numPlayers)
    /\ checked_observations' = [p \in RegisteredIds(n_specs, numPlayers) |-> 0]
    /\ inHook' = (master = "MinesweeperMaster")
    /\ pc' = "observe"
    /\ UNCHANGED <<envDone, request_violation, played_in_round, last_player,
                   done, current_round, violated_request_count, rewards,
                   metrics, delivered, deliveredIdx, observed, numPlayers,
                   master, context, response, histVars, procVars>>
    /\ log' = log \o SetupCalls(RegisteredIds(n_specs, numPlayers))

\* setup(), for an instance whose player_specs are absent or name one role
\* per model
Setup == \E n_specs \in {0, numPlayers} : SetupWith(n_specs)

\* setup(), for an instance with player_specs of any length
SetupAnyRoster == \E n_specs \in PlayerSpecCounts : SetupWith(n_specs)

\* observe() taking the events it reads off the player's list
ObserveConsuming ==
    /\ pc = "observe"
    /\ IF current_player_id \in players_by_id
          THEN /\ Observation(current_player_id)
               /\ observations' = [observations EXCEPT ![current_player_id] = <<>>]
               /\ log' = Append(log, ObserveCall(current_player_id))
               /\ pc' = "invoke"
          ELSE /\ pc' = "aborted"
               /\ UNCHANGED <<context, obsVars, log, observations>>
    /\ UNCHANGED <<current_player_id, envDone, gmVars, numPlayers, master,
                   inHook, response, histVars, procVars>>


\* observe(): get_current_player() and get_context_for(player); the first
\* statement of play()'s loop body and of _on_before_game
Observe ==
    /\ pc = "observe"
    /\ IF current_player_id \in players_by_id
          THEN /\ Observation(current_player_id)
               /\ log' = Append(log, ObserveCall(current_player_id))
               /\ pc' = "invoke"
          ELSE /\ pc' = "aborted"
               /\ UNCHANGED <<context, obsVars, log>>
    /\ UNCHANGED <<envVars, gmVars, numPlayers, master, inHook, response,
                   histVars, procVars>>

\* player(context) in play(): perceive_context marks the player as having
\* played, then the player answers; in _on_before_game perceive_context and
\* perceive_response(faux_response) are called directly
Invoke ==
    /\ pc = "invoke"
    /\ played_in_round' = MarkPlayed(played_in_round, current_player_id)
    /\ last_player' = current_player_id
    /\ response' = IF inHook THEN FauxResponse ELSE ResponseOf(current_player_id)
    /\ log' = Append(log, PlayerCall(current_player_id))
    /\ pc' = "step"
    /\ UNCHANGED <<envVars, players_by_id, checked_observations,
                   request_violation, started, done, current_round,
                   violated_request_count, rewards, metrics, obsVars,
                   numPlayers,
                   master, inHook, context, histVars, procVars>>

\* the error caught and the loop of play() gone on to its next turn
AfterInvokeErrorRetried == "observe"

\* where control is after player(context) raised in play(): nothing catches
\* the error, it leaves play()
AfterInvokeError == "aborted"

\* player(context) in play() when the response generation raises: the
\* context was perceived, the error leaves play()
InvokeFails ==
    /\ pc = "invoke"
    /\ ~inHook
    /\ played_in_round' = MarkPlayed(played_in_round, current_player_id)
    /\ last_player' = current_player_id
    /\ log' = Append(log, PlayerCall(current_player_id))
    /\ pc' = AfterInvokeError
    /\ UNCHANGED <<envVars, players_by_id, checked_observations,
                   request_violation, started, done, current_round,
                   violated_request_count, rewards, metrics, obsVars,
                   numPlayers,
                   master, inHook, context, response, histVars,
                   procVars>>

\* what env.close() returns: the rewards of the ended episode, the same
\* ones again when it is called again
CloseReturns == IF rewards = <<>> THEN CloseOutcomes ELSE {rewards}

\* the loop of play() going on whatever step() returned
AfterStepLoops(is_done) ==
    IF pc = "returned" THEN "returned" ELSE "observe"

\* where control is after step() returned `is_done`: _on_before_game returns
\* into play(), whose local done starts False; play() loops until done; a
\* caller of step() outside play() gets the result back
AfterStep(is_done) ==
    IF inHook THEN "observe"
    ELSE IF pc = "returned" THEN "returned"
    ELSE IF is_done THEN "returned" ELSE "observe"

\* whether _after_game counts a request violation for what close() returned:
\* rewards[1][self.last_player]['invalid_move']
LastMoveInvalid(close_rewards, last) == close_rewards[2][last].invalid_move

\* the numeric reward replaced by -1 for a player whose move was invalid
RewardMinusOneIfInvalid(close_rewards, player_id) ==
    IF close_rewards[2][player_id].invalid_move THEN -1
    ELSE close_rewards[1][player_id]

\* the two assert statements of reward_for_player: the player is a key of
\* rewards[0] and of rewards[1]
RewardAsserts(close_rewards, player_id) ==
    /\ player_id \in DOMAIN close_rewards[1]
    /\ player_id \in DOMAIN close_rewards[2]

\* reward_for_player(rewards, player_id): rewards[0][player_id]
reward_for_player(close_rewards, player_id) == close_rewards[1][player_id]

\* the metrics following the last player's numeric reward
TwoPlayerMetricsByReward(close_rewards, last) ==
    IF close_rewards[1][last] = -1
        THEN [aborted |-> 1, success |-> 0, lose |-> 1]
        ELSE [aborted |-> 0, success |-> 1, lose |-> 0]

\* TwoPlayerMaster._on_after_game: the metrics follow
\* rewards[1][self.last_player]['invalid_move']
TwoPlayerMetrics(close_rewards, last) ==
    IF close_rewards[2][last].invalid_move
        THEN [aborted |-> 1, success |-> 0, lose |-> 1]
        ELSE [aborted |-> 0, success |-> 1, lose |-> 0]

\* a reward of -1 marked as aborted and nothing else
PrepareMetricsAbortedOnly(close_rewards) ==
    IF close_rewards[1][0] = -1
        THEN [aborted |-> 1, success |-> 0, lose |-> 0]
        ELSE [aborted |-> 0, success |-> 0, lose |-> 0]

\* SinglePlayerMaster.prepare_metrics(numeric_reward), the rewards at hand;
\* `if numeric_reward:` is false for a reward of 0
PrepareMetrics(close_rewards) ==
    LET numeric_reward == reward_for_player(close_rewards, 0)
    IN  IF numeric_reward # 0 /\ numeric_reward = -1
            THEN [aborted |-> 1, success |-> 0, lose |-> 1]
        ELSE IF numeric_reward # 0 /\ numeric_reward = 1
            THEN [aborted |-> 0, success |-> 1, lose |-> 0]
        ELSE [aborted |-> 0, success |-> 0, lose |-> 0]

\* _on_after_game(rewards=rewards): the values logged for METRIC_ABORTED,
\* METRIC_SUCCESS and METRIC_LOSE by the master class `m`
OnAfterGame(m, close_rewards, last) ==
    IF m \in {"SinglePlayerMaster", "MinesweeperMaster"}
        THEN PrepareMetrics(close_rewards)
        ELSE TwoPlayerMetrics(close_rewards, last)

\* the branch of step() for done = False: _start_next_round and
\* _prepare_next_round
NextRound(violation) ==
    IF StartNextRound(played_in_round, players_by_id, violation)
        THEN /\ played_in_round' = {}
             /\ current_round' = current_round + 1
        ELSE UNCHANGED <<played_in_round, current_round>>

\* the branch of step() for done = True: _after_game, with the count of
\* request violations the move check left; a last_player without details
\* and a current player that is not registered are KeyErrors
AfterGame(count) ==
    \E close_rewards \in CloseReturns :
        /\ rewards' = close_rewards
        /\ closeCalls' = closeCalls + 1
        /\ IF last_player \in DOMAIN close_rewards[2]
              THEN /\ violated_request_count' =
                        IF LastMoveInvalid(close_rewards, last_player)
                            THEN count + 1 ELSE count
                   /\ IF current_player_id' \in players_by_id
                         THEN /\ metrics' = OnAfterGame(master, close_rewards,
                                                        last_player)
                              /\ pc' = AfterStep(TRUE)
                              /\ log' = log \o <<EnvStepCall(response), CheckCall>>
                                            \o AfterGameCalls(close_rewards,
                                                   last_player,
                                                   current_player_id',
                                                   metrics')
                         ELSE /\ metrics' = metrics
                              /\ pc' = "aborted"
                              /\ log' = log \o <<EnvStepCall(response),
                                                  CheckCall, EnvCloseCall>>
              ELSE /\ violated_request_count' = count
                   /\ metrics' = metrics
                   /\ pc' = "aborted"
                   /\ log' = log \o <<EnvStepCall(response), CheckCall,
                                       EnvCloseCall>>
        /\ UNCHANGED <<played_in_round, current_round>>

\* step(), from env.step having returned the lists `obs1`, the current
\* player `cur1` and `is_done`, when _check_move_validity has a cursor for
\* the player it reads
StepChecked(obs1, cur1, is_done, fresh) ==
    LET checked == CheckedPlayer(current_player_id, cur1)
        invalid == MoveInvalid(LastObservations(obs1, checked_observations, checked))
        count   == IF invalid THEN violated_request_count + 1
                              ELSE violated_request_count
    IN  /\ observations' = obs1
        /\ current_player_id' = cur1
        /\ envDone' = is_done
        /\ envSteps' = envSteps + 1
        /\ checked_observations' =
               [checked_observations EXCEPT ![checked] = Len(obs1[checked])]
        /\ request_violation' = ViolationFlag(invalid)
        /\ done' = is_done
        /\ lastStep' = [kind |-> "returned", actor |-> current_player_id,
                        fresh |-> fresh, done |-> is_done]
        /\ inHook' = FALSE
        /\ IF ~is_done
              THEN /\ NextRound(request_violation')
                   /\ violated_request_count' = count
                   /\ pc' = AfterStep(FALSE)
                   /\ log' = log \o <<EnvStepCall(response), CheckCall>>
                   /\ UNCHANGED <<rewards, metrics, closeCalls>>
              ELSE AfterGame(count)
        /\ UNCHANGED <<players_by_id, last_player, started, obsVars,
                       numPlayers, master, context, response, procVars>>

\* step() when self.checked_observations[player_id] is a KeyError in
\* _check_move_validity: env.step has returned, the flag was reset, the
\* error leaves step() before self.done is assigned
StepKeyError(obs1, cur1, is_done) ==
    /\ observations' = obs1
    /\ current_player_id' = cur1
    /\ envDone' = is_done
    /\ envSteps' = envSteps + 1
    /\ request_violation' = FALSE
    /\ lastStep' = [kind |-> "keyerror", actor |-> current_player_id,
                    fresh |-> <<>>, done |-> FALSE]
    /\ log' = log \o <<EnvStepCall(response), CheckCall>>
    /\ pc' = "aborted"
    /\ UNCHANGED <<players_by_id, checked_observations, played_in_round,
                   last_player, started, done, current_round,
                   violated_request_count, rewards, metrics, obsVars,
                   numPlayers, master, inHook, context, response, closeCalls,
                   procVars>>

\* step(), from env.step having returned the lists `obs1`, the current
\* player `cur1` and `is_done`
StepBody(obs1, cur1, is_done, fresh) ==
    IF CheckedPlayer(current_player_id, cur1) \in DOMAIN checked_observations
        THEN StepChecked(obs1, cur1, is_done, fresh)
        ELSE StepKeyError(obs1, cur1, is_done)

\* step(response) while the episode runs: env.step adds its events, names
\* the next player and says whether the episode ended
Step ==
    /\ pc = "step"
    /\ ~envDone
    /\ envSteps < StepLimit(numPlayers)
    /\ \E out \in StepOutcomes(current_player_id, response) :
          LET obs1 == Deliver(observations, out.delivery)
          IN  StepBody(obs1, out.next, out.done,
                       SubSeq(obs1[current_player_id],
                              Len(observations[current_player_id]) + 1,
                              Len(obs1[current_player_id])))

\* step(response) once the episode has ended, env.step returning done again:
\* by play() after a setup step that ended the episode, or by a caller of
\* step() after play() returned
StepAfterDone ==
    /\ pc \in {"step", "returned"}
    /\ envDone
    /\ envSteps < StepLimit(numPlayers)
    /\ StepBody(observations, current_player_id, TRUE, <<>>)

\* step(response) once the episode has ended, env.step raising: the flag
\* was reset before the call, the error leaves step()
StepRaises ==
    /\ pc \in {"step", "returned"}
    /\ envDone
    /\ envSteps < StepLimit(numPlayers)
    /\ request_violation' = FALSE
    /\ envSteps' = envSteps + 1
    /\ lastStep' = [kind |-> "raised", actor |-> current_player_id,
                    fresh |-> <<>>, done |-> FALSE]
    /\ log' = Append(log, EnvStepCall(response))
    /\ pc' = "aborted"
    /\ UNCHANGED <<envVars, players_by_id, checked_observations,
                   played_in_round, last_player, started, done, current_round,
                   violated_request_count, rewards, metrics, obsVars,
                   numPlayers,
                   master, inHook, context, response, closeCalls,
                   procVars>>

Next ==
    \/ Setup
    \/ Observe
    \/ Invoke
    \/ InvokeFails
    \/ Step
    \/ StepAfterDone
    \/ StepRaises

Spec == Init /\ [][Next]_vars

\* the sessions of instances with player_specs of any length
NextAnyRoster ==
    \/ SetupAnyRoster
    \/ Observe
    \/ Invoke
    \/ InvokeFails
    \/ Step
    \/ StepAfterDone
    \/ StepRaises

SpecAnyRoster == Init /\ [][NextAnyRoster]_vars

\* the sessions of one, two and more than two players
SpecMulti == InitMulti /\ [][Next]_vars

\* ------------------------------ play() with agents and environment live

\* the environment ends its episode within the steps it is given
EnvEndsInTime == envSteps' = StepLimit(numPlayers) => envDone'

\* setup() and play() of a session whose agents' invocations all return
NextLive ==
    /\ \/ Setup
       \/ Observe
       \/ Invoke
       \/ Step
       \/ StepAfterDone
       \/ StepRaises
    /\ EnvEndsInTime

\* play() is a sequential loop: whatever statement is next is executed
SpecLive == Init /\ [][NextLive]_vars /\ WF_vars(NextLive)

\* ------------------------------------- the observation wrapper by itself

\* the events the environment appends in these sessions: actions and game
\* messages, sent by a player or (messages) by the game
WrapperEvents ==
    { <<sender, PlainMsg, kind>> :
        sender \in {GM_ID, 0, 1}, kind \in {PLAYER_ACTION, "GAME_MESSAGE"} }
    \ { <<GM_ID, PlainMsg, PLAYER_ACTION>> }

\* the environment appends an event to every player's list (to_id = -1), as
\* a step of the episode does
EnvAppends ==
    /\ started
    /\ \A p \in Players : Len(observations[p]) < MaxEvents
    /\ \E ev \in WrapperEvents :
           observations' = Deliver(observations, <<ev, GM_ID>>)
    /\ UNCHANGED <<current_player_id, envDone, gmVars, obsVars, ctlVars,
                   histVars, log, procVars>>

\* get_context_for(player), called for any registered player
GetContextFor(player_id) ==
    /\ started
    /\ player_id \in players_by_id \ {GM_ID}
    /\ Observation(player_id)
    /\ UNCHANGED <<envVars, gmVars, numPlayers, master, pc, inHook, response,
                   histVars, log, procVars>>

\* a two-player session set up, then its environment appending events and
\* its players' contexts fetched in any order
InitWrapper == InitFor({2}) /\ NoProcess

NextWrapper ==
    \/ Setup
    \/ EnvAppends
    \/ \E player_id \in Players : GetContextFor(player_id)

SpecWrapper == InitWrapper /\ [][NextWrapper]_vars

\* ------------------------------------------- the sessions of a process

\* In the specifications of the process the fields of the single game
\* master above are not followed: they stay as __init__ leaves them, and
\* each session is followed in what it shares with the process.
mainVars == <<envVars, gmVars, obsVars, ctlVars, histVars, log>>

\* the game masters created in one process
SessionIds == {1, 2}

\* the one game master above, never set up
IdleMaster == InitFor({1}) /\ master = "SinglePlayerMaster"

\* two game masters, each created for a game instance of its own, in a
\* process whose `random` module is in any state
InitSessions ==
    /\ IdleMaster
    /\ random_state \in 0 .. (RandomStates - 1)
    /\ ENV_REGISTRY = [i \in EnvIds |-> NotRegistered]
    /\ sessions \in [SessionIds -> {NewSession(i) : i \in Instances}]
    /\ NothingBuilt

\* two game masters created for the same game instance: the two runs of
\* test_determinism
InitRuns ==
    /\ IdleMaster
    /\ random_state \in 0 .. (RandomStates - 1)
    /\ ENV_REGISTRY = [i \in EnvIds |-> NotRegistered]
    /\ sessions \in {[s \in SessionIds |-> NewSession(i)] : i \in Instances}
    /\ NothingBuilt

\* setup(**instance) of session s: the env is registered unless its id
\* already is, the `random` module seeded, the environment made from what
\* the registry holds for the id
SessionSetup(s) ==
    /\ ~sessions[s].started
    /\ LET i == sessions[s].instance
           registry == Register(ENV_REGISTRY, i.env_id, i.env_specs)
       IN  /\ ENV_REGISTRY' = registry
           /\ random_state' = Seeded(random_state, i.seed)
           /\ sessions' = [sessions EXCEPT ![s].started = TRUE,
                                           ![s].env = registry[i.env_id]]
    /\ UNCHANGED <<mainVars, benchmark, instance_files, checkVars>>

\* one turn of play() of session s: the player answers with
\* random.choice(self.custom_response), step() passes the answer to the
\* environment and takes its done
SessionTurn(s) ==
    /\ sessions[s].started
    /\ ~sessions[s].done
    /\ LET answer == Choice(random_state, CustomResponses)
           answers == Append(sessions[s].log, answer)
       IN  /\ random_state' = NextRandom(random_state)
           /\ sessions' = [sessions EXCEPT
                              ![s].log = answers,
                              ![s].done = EpisodeEnds(sessions[s].env, answers)]
    /\ UNCHANGED <<ENV_REGISTRY, mainVars, benchmark, instance_files, checkVars>>

\* the operations of the sessions, interleaved in any order
NextSessions ==
    \E s \in SessionIds : SessionSetup(s) \/ SessionTurn(s)

\* the operations of the runs of test_determinism: one run after the other
NextRuns ==
    \E s \in SessionIds :
        /\ \A t \in SessionIds : t < s => sessions[t].done
        /\ SessionSetup(s) \/ SessionTurn(s)

SpecSessions == InitSessions /\ [][NextSessions]_vars

SpecRuns == InitRuns /\ [][NextRuns]_vars

\* ------------------------------------------- the _on_after_game hooks

\* the master classes of submasters.py, by the number of players of their
\* games
AllMastersFor(n) ==
    IF n = 1 THEN {"SinglePlayerMaster", "MinesweeperMaster", "WordleMaster"}
             ELSE {"TwoPlayerMaster", "BattleshipMaster", "WordChainsMaster"}

\* the class whose metrics the master class inherits
BaseOf(m) ==
    IF m = "WordleMaster" THEN "SinglePlayerMaster"
    ELSE IF m = "BattleshipMaster" THEN "TwoPlayerMaster"
    ELSE m

\* len(end_word) - len(self.start_word) of a WordChains episode
WordLengthDiffs == {-1, 0, 1, 2}

\* WordChainsMaster._on_after_game: aborted when the word did not change
\* its length
WordChainsMetrics(word_length_diff) ==
    IF word_length_diff = 0
        THEN [aborted |-> 1, success |-> 0, lose |-> 1]
        ELSE [aborted |-> 0, success |-> 1, lose |-> 0]

\* _on_after_game(rewards=close_rewards) of a session of master class
\* `master` whose last player was `last`, called once, at the end of its
\* game: the three metrics are logged
CallOnAfterGame(close_rewards, last, word_length_diff) ==
    /\ pc = "new"
    /\ log = <<>>
    /\ rewards' = close_rewards
    /\ last_player' = last
    /\ metrics' = IF master = "WordChainsMaster"
                      THEN WordChainsMetrics(word_length_diff)
                      ELSE OnAfterGame(BaseOf(master), close_rewards, last)
    /\ log' = IF master = "WordChainsMaster"
                  THEN << Entry("log_key", "word_length_diff", word_length_diff),
                          Entry("_on_after_game", master, metrics') >>
                  ELSE << Entry("_on_after_game", master, metrics') >>
    /\ UNCHANGED <<envVars, players_by_id, checked_observations,
                   request_violation, played_in_round, started, done,
                   current_round, violated_request_count, obsVars, ctlVars,
                   histVars, procVars>>

\* a session of any master class
InitHooks ==
    /\ numPlayers \in PlayerCounts
    /\ master \in AllMastersFor(numPlayers)
    /\ Constructed
    /\ NoProcess

\* the hook called with whatever close() can return
NextHooks ==
    \E close_rewards \in CloseOutcomes, last \in Players,
       word_length_diff \in WordLengthDiffs :
        CallOnAfterGame(close_rewards, last, word_length_diff)

SpecHooks == InitHooks /\ [][NextHooks]_vars

\* ------------------------------------------------- reward_for_player

\* the ids reward_for_player is asked about
AskedIds == {0, 1}

\* the details map of the ids: one invalid_move flag each
DetailsOver(ids) ==
    [ids -> { [invalid_move |-> f, reason |-> <<"reason">>] : f \in BOOLEAN }]

\* what a close() call hands to reward_for_player: a reward map and a
\* details map, each over any of the ids
PartialCloseOutcomes ==
    UNION { [ids -> {-1, 0, 1}] \X DetailsOver(others) :
                ids \in SUBSET AskedIds, others \in SUBSET AskedIds }

\* rewards = self.env.close()
TakeRewards ==
    /\ rewards = <<>>
    /\ rewards' \in PartialCloseOutcomes
    /\ UNCHANGED <<envVars, players_by_id, checked_observations,
                   request_violation, played_in_round, last_player, started,
                   done, current_round, violated_request_count, metrics,
                   obsVars, ctlVars, histVars, log, procVars>>

\* reward_for_player(rewards, player_id): the asserts, then the reward;
\* the log keeps what the call returned or that it raised
CallRewardForPlayer(player_id) ==
    /\ rewards # <<>>
    /\ Len(log) < MaxCalls
    /\ log' = Append(log,
                 IF RewardAsserts(rewards, player_id)
                     THEN Entry("reward_for_player", "returned",
                                [player |-> player_id,
                                 result |-> reward_for_player(rewards, player_id)])
                     ELSE Entry("reward_for_player", "AssertionError",
                                [player |-> player_id, result |-> None]))
    /\ UNCHANGED <<envVars, gmVars, obsVars, ctlVars, histVars, procVars>>

NextRewards ==
    \/ TakeRewards
    \/ \E player_id \in AskedIds : CallRewardForPlayer(player_id)

SpecRewards == Init /\ [][NextRewards]_vars

\* ------------------------------------------- TextArenaBenchmark.__init__

\* the names `from submasters import *` and `from metrics import *` put in
\* the globals() of master.py
Globals ==
    {"SinglePlayerMaster", "MinesweeperMaster", "WordleMaster",
     "TwoPlayerMaster", "BattleshipMaster", "WordChainsMaster",
     "SinglePlayerScorer", "TwoPlayerScorer", "HangmanScorer",
     "WordChainsScorer", "BattleshipScorer"}

\* the instance file names of the game specs
InstanceFiles == {"instances", "instances_v2"}

\* the game specs a benchmark is constructed for: 'master' and 'scorer' are
\* absent, name a class, or name none; entry_point is given or not
GameSpecs ==
    [players     : PlayerCounts \cup MultiPlayerCounts,
     master      : {Absent, "WordChainsMaster", "NoSuchMaster"},
     scorer      : {Absent, "WordChainsScorer", "NoSuchScorer"},
     instances   : InstanceFiles,
     entry_point : BOOLEAN]

\* raise ValueError(...)
ValueError == "ValueError"

\* the master of a spec without one is the two-player one, whatever the count
MasterOfTwoByDefault(game_spec) ==
    IF game_spec.master # Absent THEN game_spec.master
    ELSE IF game_spec.players = 1 THEN "SinglePlayerMaster"
    ELSE "TwoPlayerMaster"

\* `master` of __init__: the one named, or the default of the player count
MasterOf(game_spec) ==
    IF game_spec.master # Absent THEN game_spec.master
    ELSE IF game_spec.players = 1 THEN "SinglePlayerMaster"
    ELSE IF game_spec.players = 2 THEN "TwoPlayerMaster"
    ELSE ValueError

\* `scorer` of __init__: the one named, or the default of the player count
ScorerOf(game_spec) ==
    IF game_spec.scorer # Absent THEN game_spec.scorer
    ELSE IF game_spec.players = 1 THEN "SinglePlayerScorer"
    ELSE IF game_spec.players = 2 THEN "TwoPlayerScorer"
    ELSE ValueError

\* the benchmark object __init__ leaves when it raises `error`
Failed(game_spec, error, master_class) ==
    [game_spec |-> game_spec, raised |-> error, master_class |-> master_class,
     scorer_class |-> Unselected]

\* TextArenaBenchmark(game_spec): the classes are looked up in globals(),
\* the instance file is generated when it is missing; on_generate asserts
\* that the game has an entry_point
Construct(game_spec) ==
    LET master_name == MasterOf(game_spec)
        scorer_name == ScorerOf(game_spec)
    IN  /\ IF master_name = ValueError \/ scorer_name = ValueError
              THEN /\ benchmark' = Failed(game_spec, ValueError, Unselected)
                   /\ UNCHANGED instance_files
              ELSE IF master_name \notin Globals
              THEN /\ benchmark' = Failed(game_spec, "KeyError", Unselected)
                   /\ UNCHANGED instance_files
              ELSE IF scorer_name \notin Globals
              THEN /\ benchmark' = Failed(game_spec, "KeyError", master_name)
                   /\ UNCHANGED instance_files
              ELSE /\ benchmark' =
                        [game_spec |-> game_spec,
                         raised |-> IF game_spec.instances \in instance_files
                                       \/ game_spec.entry_point
                                        THEN "" ELSE "AssertionError",
                         master_class |-> master_name,
                         scorer_class |-> scorer_name]
                   /\ instance_files' =
                        IF game_spec.entry_point
                            THEN instance_files \cup {game_spec.instances}
                            ELSE instance_files
        /\ UNCHANGED <<mainVars, random_state, ENV_REGISTRY, sessions, checkVars>>

\* benchmarks constructed one after the other in a package that has any of
\* the instance files
InitBenchmark ==
    /\ IdleMaster
    /\ random_state = 0
    /\ ENV_REGISTRY = [i \in EnvIds |-> NotRegistered]
    /\ sessions = <<>>
    /\ benchmark = NoBenchmark
    /\ instance_files \in SUBSET InstanceFiles
    /\ files = <<>>
    /\ NotChecking

NextBenchmark == \E game_spec \in GameSpecs : Construct(game_spec)

SpecBenchmark == InitBenchmark /\ [][NextBenchmark]_vars

\* ------------------------------------------------ check_determinism.py

OUT_FILE == "determinism_results.json"

\* the games of the registry and the models a results file may name
GameNames == {"wordle", "battleship"}
ModelNames == {"mock", "gpt"}

\* at most so many game specs are selected by one call
MaxGames == 2

\* the out_file arguments: "" takes the branches None takes (`if out_file`)
OutFiles == {"", OUT_FILE}

\* what `games` can select: all the registered specs, or the specs that unify
\* with each selector of the list, one list extended by the next, so that a
\* game can be there more than once
SelectedSpecs == UNION { [1 .. n -> GameNames] : n \in 0 .. MaxGames }

\* the dicts json.load can find in a results file: game -> model -> verdict
Verdicts == UNION { [ms -> BOOLEAN] : ms \in SUBSET ModelNames }
ResultFiles == UNION { [gs -> Verdicts] : gs \in SUBSET GameNames }

\* `game_name in results and model in results[game_name]`
Tested(results, game_name, model) ==
    /\ game_name \in DOMAIN results
    /\ model \in DOMAIN results[game_name]

\* a dict that keeps the verdict of the pair just run and nothing else of
\* that game
UpdatedAlone(results, game_name, test_model, test_passed) ==
    [g \in DOMAIN results \cup {game_name} |->
        IF g = game_name THEN [m \in {test_model} |-> test_passed]
                         ELSE results[g]]

\* existing_results after `existing_results[game_name][test_model] =
\* test_passed`, the game's dict created when it is not there
Updated(results, game_name, test_model, test_passed) ==
    LET of_game == IF game_name \in DOMAIN results THEN results[game_name]
                                                   ELSE <<>>
        verdicts == [m \in DOMAIN of_game \cup {test_model} |->
                        IF m = test_model THEN test_passed ELSE of_game[m]]
    IN  [g \in DOMAIN results \cup {game_name} |->
            IF g = game_name THEN verdicts ELSE results[g]]

\* the files after json.dump(content) into open(path, 'w')
Written(path, content) ==
    [p \in DOMAIN files \cup {path} |-> IF p = path THEN content ELSE files[p]]

\* check_games up to its loop: the game specs are selected and the results
\* file, if one is named and there, is loaded
CheckGames(model, game_specs, out_file, overwrite) ==
    /\ check.pc \in {"idle", "returned"}
    /\ check' = [pc |-> "loop", model |-> model, game_specs |-> game_specs,
                 out_file |-> out_file, overwrite |-> overwrite, next |-> 1,
                 tested |-> <<>>]
    /\ existing_results' = IF out_file # "" /\ out_file \in DOMAIN files
                              THEN files[out_file] ELSE <<>>
    /\ UNCHANGED <<mainVars, random_state, ENV_REGISTRY, sessions, benchmark,
                   instance_files, files>>

\* the loop of check_games is at a game spec
InLoop == check.pc = "loop" /\ check.next <= Len(check.game_specs)

\* the game spec the loop is at
GameSpec == check.game_specs[check.next]

\* the condition of the `continue` that skips a pair already tested
AlreadyTested ==
    /\ ~check.overwrite
    /\ Tested(existing_results, GameSpec, check.model)

\* one pass of the loop that skips its game spec
SkipGame ==
    /\ InLoop
    /\ AlreadyTested
    /\ check' = [check EXCEPT !.next = @ + 1]
    /\ UNCHANGED <<mainVars, random_state, ENV_REGISTRY, sessions, benchmark,
                   instance_files, files, existing_results>>

\* what a call of test_determinism comes to: both runs gave the same
\* interactions, they differed, or an exception left it
Outcomes == {"passed", "failed", "raised"}

\* one pass of the loop that calls test_determinism: an exception is logged
\* and the loop goes on; a verdict is put into existing_results under the
\* game name and the model test_determinism returns (those it was given: the
\* spec the registry matches to a GameSpec has its game_name) and the dict is
\* dumped to out_file, if one is named
TestDeterminism(outcome) ==
    /\ InLoop
    /\ ~AlreadyTested
    /\ check' = [check EXCEPT !.next = @ + 1,
                              !.tested = Append(@, [game |-> GameSpec,
                                                    outcome |-> outcome])]
    /\ IF outcome # "raised" /\ check.out_file # ""
          THEN LET results == Updated(existing_results, GameSpec, check.model,
                                      outcome = "passed")
               IN  /\ existing_results' = results
                   /\ files' = Written(check.out_file, results)
          ELSE UNCHANGED <<existing_results, files>>
    /\ UNCHANGED <<mainVars, random_state, ENV_REGISTRY, sessions, benchmark,
                   instance_files>>

\* the loop is through and check_games returns
CheckGamesReturns ==
    /\ check.pc = "loop"
    /\ check.next > Len(check.game_specs)
    /\ check' = [check EXCEPT !.pc = "returned"]
    /\ UNCHANGED <<mainVars, random_state, ENV_REGISTRY, sessions, benchmark,
                   instance_files, files, existing_results>>

\* check_games called, once or again, in a directory that has any results
\* file or none
InitCheck ==
    /\ IdleMaster
    /\ random_state = 0
    /\ ENV_REGISTRY = [i \in EnvIds |-> NotRegistered]
    /\ sessions = <<>>
    /\ benchmark = NoBenchmark
    /\ instance_files = {}
    /\ files \in UNION { [ps -> ResultFiles] : ps \in SUBSET {OUT_FILE} }
    /\ NotChecking

NextCheck ==
    \/ \E model \in ModelNames, game_specs \in SelectedSpecs,
          out_file \in OutFiles, overwrite \in BOOLEAN :
            CheckGames(model, game_specs, out_file, overwrite)
    \/ SkipGame
    \/ \E outcome \in Outcomes : TestDeterminism(outcome)
    \/ CheckGamesReturns

SpecCheck == InitCheck /\ [][NextCheck]_vars

\* ------------------------------------------------------------ properties

\* a step() call whose env.step returned is being taken
StepReturned == envSteps' = envSteps + 1 /\ lastStep'.kind = "returned"

\* an observation call for the current player is being taken
ObservationCall == pc = "observe" /\ pc' = "invoke"

\* the elements of a sequence are pairwise different
NoRepeats(seq) ==
    \A i, j \in DOMAIN seq : i # j => seq[i] # seq[j]

\* C1: in a step that returns done = False the round completes (acted-set
\* cleared, round counter + 1) exactly when the acted-set holds as many ids
\* as there are agents and the step raised no violation flag; every other
\* such step leaves the acted-set and the round counter alone.
C1_RoundCompletion ==
    [][ (StepReturned /\ ~done') =>
            IF Cardinality(played_in_round) = numPlayers /\ ~request_violation'
                THEN /\ played_in_round' = {}
                     /\ current_round' = current_round + 1
                ELSE /\ played_in_round' = played_in_round
                     /\ current_round' = current_round ]_vars

\* a step of a two-player session has just completed the first round
C1_Witness ==
    /\ numPlayers = 2
    /\ lastStep.kind = "returned"
    /\ ~done
    /\ current_round = 1
    /\ played_in_round = {}

\* C2: every observation call moves the agent's cursor to the current
\* length of its list and delivers only list positions beyond everything
\* delivered to that agent before, so no position of any agent's list is
\* ever delivered twice.
C2_AtMostOnceDelivery ==
    [][ /\ \A q \in Players : NoRepeats(deliveredIdx'[q])
        /\ ObservationCall =>
               LET p == current_player_id
               IN  /\ logged_observation_count'[p] = Len(observations[p])
                   /\ \A i \in DOMAIN deliveredIdx[p] :
                          \A j \in (Len(deliveredIdx[p]) + 1) .. Len(deliveredIdx'[p]) :
                              deliveredIdx[p][i] < deliveredIdx'[p][j] ]_vars

\* an agent has been delivered events in two different observation calls
C2_Witness ==
    \E p \in Players :
        /\ Len(deliveredIdx[p]) >= 2
        /\ pc = "invoke"
        /\ current_player_id = p
        /\ context.content.lines # <<>>
        /\ context.content.prompt = <<>>

\* C3: every agent's cursor never decreases and never exceeds the length of
\* the agent's observation list.
C3_CursorMonotoneBounded ==
    [][ \A p \in DOMAIN logged_observation_count' :
            /\ logged_observation_count'[p] <= Len(observations'[p])
            /\ p \in DOMAIN logged_observation_count =>
                   logged_observation_count'[p] >= logged_observation_count[p] ]_vars

\* a cursor has advanced twice and stands at the end of a list of two events
C3_Witness ==
    \E p \in DOMAIN logged_observation_count :
        /\ logged_observation_count[p] = 2
        /\ Len(observations[p]) = 2
        /\ pc = "step"

\* the line the specification asks for: '[<name>] <message>', the name from
\* the role mapping, or 'Player <id>' for an id without an entry
LineFor(ev) ==
    <<"[",
      IF \E k \in DOMAIN role_mapping : k = ev[1]
          THEN role_mapping[ev[1]]
          ELSE <<"Player ", ToString(ev[1])>>,
      "] ", ev[2], "\n">>

\* the events of a list that are not the agent's own PLAYER_ACTION events,
\* in list order, each as its line
RECURSIVE VisibleLines(_, _)
VisibleLines(p, evs) ==
    IF evs = <<>> THEN <<>>
    ELSE LET rest == VisibleLines(p, SubSeq(evs, 1, Len(evs) - 1))
             ev   == evs[Len(evs)]
         IN  IF ev[3] = PLAYER_ACTION /\ ev[1] = p
                 THEN rest
                 ELSE Append(rest, LineFor(ev))

\* C4: for every agent the lines delivered so far, in call order, are the
\* lines of the delivered part of its observation list without its own
\* PLAYER_ACTION events, in list order; once nothing is pending that is the
\* whole list.
C4_DeliveredIsVisibleLog ==
    \A p \in DOMAIN logged_observation_count :
        /\ delivered[p] =
               VisibleLines(p, SubSeq(observations[p], 1, logged_observation_count[p]))
        /\ logged_observation_count[p] = Len(observations[p]) =>
               delivered[p] = VisibleLines(p, observations[p])

\* an agent was delivered its whole list of three events: its own action
\* skipped, one line of a sender with a role name and one of a sender without
C4_Witness ==
    \E p \in DOMAIN logged_observation_count :
        /\ logged_observation_count[p] = Len(observations[p])
        /\ Len(observations[p]) = 3
        /\ Len(delivered[p]) = 2
        /\ \E i \in DOMAIN observations[p] :
               observations[p][i][3] = PLAYER_ACTION /\ observations[p][i][1] = p
        /\ \E i \in DOMAIN delivered[p] : delivered[p][i][2] = <<"GAME">>
        /\ \E i \in DOMAIN delivered[p] : delivered[p][i][2] = <<"Player ", "0">>

\* C5: a step flagged as a violation that does not end the episode does not
\* advance the round counter and removes no agent id from the acted-set.
C5_ViolationKeepsRound ==
    [][ (StepReturned /\ ~done' /\ request_violation') =>
            /\ current_round' = current_round
            /\ played_in_round \subseteq played_in_round' ]_vars

\* a violation was flagged in a step taken when every agent had acted
C5_Witness ==
    /\ lastStep.kind = "returned"
    /\ ~done
    /\ request_violation
    /\ numPlayers = 2
    /\ played_in_round = Players
    /\ current_round = 0

\* some event of the list carries the marker substring in its message
MarkerIn(evs) ==
    \E i \in DOMAIN evs : \E k \in DOMAIN evs[i][2] : evs[i][2][k] = Marker

\* C6: after each environment step the violation flag is true exactly when
\* the events that step appended to the acting agent's own list carry the
\* marker; a violation of an earlier step does not show in the flag of a
\* later clean step.
C6_FlagIffMarkerForActor ==
    lastStep.kind = "returned" =>
        (request_violation <=> MarkerIn(lastStep.fresh))

\* C7: env.close() is called exactly once per session, when a step returns
\* done = True and never otherwise; nothing makes it return rewards again.
C7_CloseExactlyOnce ==
    closeCalls = IF done THEN 1 ELSE 0

\* C8: once a step returned done = True the session stays done and performs
\* no further environment step, observation or agent invocation.
C8_DoneIsTerminal ==
    [][ done =>
            /\ done'
            /\ envSteps' = envSteps
            /\ ~ObservationCall
            /\ ~(pc = "invoke" /\ pc' # "invoke") ]_vars

\* C9: a final step (done = True) whose move was invalid - the marker among
\* the events the step appended for the acting agent, or invalid_move set in
\* the close-time details of the last actor - records a request violation,
\* and does no round bookkeeping.
C9_FinalViolationRecorded ==
    [][ (/\ StepReturned
         /\ done'
         /\ \/ MarkerIn(lastStep'.fresh)
            \/ rewards'[2][last_player].invalid_move) =>
            /\ violated_request_count' > violated_request_count
            /\ played_in_round' = played_in_round
            /\ current_round' = current_round ]_vars

\* the last step rejected the move of the agent that is still current: the
\* marker is among the events it appended for that agent, done is False
RetryPending ==
    /\ lastStep.kind = "returned"
    /\ ~lastStep.done
    /\ lastStep.actor = current_player_id
    /\ MarkerIn(lastStep.fresh)

\* C10: when a step returns done = False, keeps the acting agent current and
\* appended a marker event for it, then the violation flag is true, the
\* acted-set is as before, done is False, close() was not called, and the
\* loop goes on to observe that same agent, deliver it the marker event and
\* invoke it again.
C10_InvalidMoveRetry ==
    [][ /\ (StepReturned /\ RetryPending') =>
               /\ request_violation'
               /\ played_in_round' = played_in_round
               /\ current_round' = current_round
               /\ ~done'
               /\ closeCalls' = closeCalls
               /\ pc' = "observe"
        /\ (RetryPending /\ pc = "observe" /\ pc' # "observe") =>
               /\ pc' = "invoke"
               /\ current_player_id' = lastStep.actor
               /\ logged_observation_count'[lastStep.actor] =
                      Len(observations[lastStep.actor])
               /\ \E i \in DOMAIN context'.content.lines :
                      \E k \in DOMAIN context'.content.lines[i][4] :
                          context'.content.lines[i][4][k] = Marker
        /\ (RetryPending /\ pc = "invoke" /\ pc' = "step") =>
               /\ last_player' = lastStep.actor
               /\ lastStep.actor \in played_in_round' ]_vars

\* after a rejected move the same agent was observed and invoked again and
\* its next response is about to be stepped
C10_Witness ==
    /\ RetryPending
    /\ request_violation
    /\ pc = "step"
    /\ ~inHook
    /\ last_player = lastStep.actor
    /\ numPlayers = 2

\* no event of any agent's list carries the marker: the environment has
\* accepted every move so far
NoMoveRejected(obs) == \A p \in DOMAIN obs : ~MarkerIn(obs[p])

\* C11: while the environment has accepted every move and the moves so far
\* came from distinct agents (as many ids in the acted-set as moves made,
\* the one being stepped included), a step that returns done = False leaves the
\* round counter at 0 and the acted-set grown until it is the N-th move; the
\* N-th move advances the round counter to 1 and empties the acted-set, for
\* sessions of 1, 2 and 3 agents.
C11_RoundAfterNMoves ==
    [][ (/\ StepReturned
         /\ ~done'
         /\ NoMoveRejected(observations')
         /\ Cardinality(played_in_round) = envSteps') =>
            IF envSteps' = numPlayers
                THEN /\ current_round = 0
                     /\ current_round' = 1
                     /\ played_in_round' = {}
                ELSE /\ current_round' = 0
                     /\ played_in_round' = played_in_round
                     /\ played_in_round' # {} ]_vars

\* three distinct agents have each made one accepted move and the third
\* move has completed the first round
C11_Witness ==
    /\ numPlayers = 3
    /\ envSteps = 3
    /\ lastStep.kind = "returned"
    /\ ~done
    /\ NoMoveRejected(observations)
    /\ violated_request_count = 0
    /\ current_round = 1
    /\ played_in_round = {}

\* what _start_next_round would return if it were called in the state
RoundCheck == StartNextRound(played_in_round, players_by_id, request_violation)

\* C12: between two step() calls of a started session - while an agent is
\* observed or invoked - the result of the round-completion check stays
\* what it was.
C12_CheckStableBetweenSteps ==
    [][ (pc \in {"observe", "invoke"} /\ envSteps' = envSteps) =>
            RoundCheck' = RoundCheck ]_vars

\* C13: when the response generation of an invoked agent raises, the error
\* ends play(): that transition makes no environment step, calls no close()
\* and leaves done as it was, and afterwards the session does nothing more -
\* no step for that turn, no second invocation.
C13_InvokeErrorPropagates ==
    [][ /\ (pc = "invoke" /\ pc' \notin {"invoke", "step"}) =>
               /\ pc' = "aborted"
               /\ envSteps' = envSteps
               /\ closeCalls' = closeCalls
               /\ done' = done
               /\ UNCHANGED <<envVars, rewards, response>>
        /\ pc = "aborted" => UNCHANGED vars ]_vars

\* the agent of the second turn was invoked and its response generation
\* raised: play() was left with one step made and the episode not closed
C13_Witness ==
    /\ pc = "aborted"
    /\ lastStep.kind = "returned"
    /\ envSteps = 1
    /\ ~done
    /\ closeCalls = 0
    /\ last_player = current_player_id
    /\ response = ResponseOf(lastStep.actor)

\* C14: the acted-set gains an id, and the last-actor pointer changes, only
\* in a step() whose env.step returned, and then to the agent whose action
\* was stepped; a turn that ends in an error (the response generation or
\* the environment step raising) leaves both as they were.
C14_ActedOnlyByStep ==
    [][ /\ (played_in_round' \ played_in_round # {} \/ last_player' # last_player) =>
               /\ StepReturned
               /\ last_player' = current_player_id
               /\ played_in_round' \ played_in_round \subseteq {current_player_id}
        /\ pc' = "aborted" => UNCHANGED <<played_in_round, last_player>> ]_vars

\* C15: when the first step of a single-agent session rejects the move - a
\* marker event appended for the agent, or invalid_move set in the details
\* close() returns - and ends the episode, the logged metrics are Aborted =
\* 1, Lose = 1 and Success = 0, at least one request violation is counted
\* and close() has been called exactly once.
C15_SingleAgentEarlyAbort ==
    [][ (/\ StepReturned
         /\ numPlayers = 1
         /\ envSteps = 0
         /\ done'
         /\ \/ MarkerIn(lastStep'.fresh)
            \/ rewards'[2][0].invalid_move) =>
            /\ metrics' = [aborted |-> 1, success |-> 0, lose |-> 1]
            /\ violated_request_count' >= 1
            /\ closeCalls' = 1 ]_vars

RECURSIVE SoloState(_, _)
SoloState(seed, n) ==
    IF n = 0 THEN seed % RandomStates ELSE NextRandom(SoloState(seed, n - 1))

\* the first n answers of a session that runs alone in its process
SoloLog(seed, n) ==
    [k \in 1 .. n |-> Choice(SoloState(seed, k - 1), CustomResponses)]

\* C17: whatever the interleaving of two sessions in one process, each
\* session logs the answers it logs when it runs alone and is given the
\* environment its own instance specifies.
C17_SessionsIsolated ==
    \A s \in SessionIds :
        /\ sessions[s].log = SoloLog(sessions[s].instance.seed, Len(sessions[s].log))
        /\ sessions[s].started => sessions[s].env = sessions[s].instance.env_specs

\* C18: once setup() has returned and while done is False, the
\* environment's current player id is the id of a registered agent: a key of
\* players_by_id other than the GM entry.
C18_CurrentPlayerRegistered ==
    (started /\ ~done) =>
        /\ current_player_id \in players_by_id
        /\ current_player_id # GM_ID

\* the acted-set holds registered agent ids only, and no more of them than
\* players_by_id has entries besides the GM's
ActedSetBounded ==
    /\ Cardinality(played_in_round) <= Cardinality(players_by_id) - 1
    /\ played_in_round \subseteq players_by_id \ {GM_ID}

\* C19: in every state the acted-set has at most len(players_by_id) - 1
\* elements, all of them registered agent ids; the round counter only ever
\* advances by one and with the acted-set emptied, and an id only ever
\* leaves the acted-set when the round counter advances.
C19_ActedSetAndRounds ==
    [][ /\ ActedSetBounded
        /\ ActedSetBounded'
        /\ current_round' # current_round =>
               /\ current_round' = current_round + 1
               /\ played_in_round # {}
               /\ played_in_round' = {}
        /\ played_in_round \ played_in_round' # {} =>
               /\ current_round' = current_round + 1
               /\ played_in_round' = {} ]_vars

\* a round of two agents was completed and an agent of the next round has
\* been invoked
C19_Witness ==
    /\ numPlayers = 2
    /\ current_round = 1
    /\ Cardinality(played_in_round) = 1
    /\ pc = "step"
    /\ envSteps = 2

\* C20: the context of an observation call carries the standard preamble
\* exactly when it is the first observation call for that agent, whether or
\* not the agent has pending events then.
C20_PreambleOnlyOnFirstCall ==
    [][ ObservationCall =>
            (context'.content.prompt = StandardGamePrompt
                <=> current_player_id \notin observed) ]_vars

\* the event is a PLAYER_ACTION sent by the agent itself
OwnAction(p, ev) == ev[3] = PLAYER_ACTION /\ ev[1] = p

\* the list positions in the sequence of positions
PositionsIn(seq) == { seq[i] : i \in DOMAIN seq }

\* C21: of the events an agent's observation calls have gone past, exactly
\* those that are not the agent's own PLAYER_ACTION were rendered - actions
\* of other senders and every non-action event, also one the agent itself
\* sent - and a call moves the cursor to the end of the list, past the
\* skipped events too.
C21_OwnActionsSkippedOnly ==
    [][ \A p \in DOMAIN logged_observation_count' :
            /\ \A i \in 1 .. logged_observation_count'[p] :
                   i \in PositionsIn(deliveredIdx'[p])
                       <=> ~OwnAction(p, observations'[p][i])
            /\ PositionsIn(deliveredIdx'[p]) \subseteq 1 .. logged_observation_count'[p]
            /\ ( /\ p \in DOMAIN logged_observation_count
                 /\ \/ logged_observation_count'[p] # logged_observation_count[p]
                    \/ p \in observed' \ observed ) =>
                   logged_observation_count'[p] = Len(observations[p]) ]_vars

\* an agent's calls have gone past its own action, an action of the other
\* player and a game message sent under its own id: two of them rendered
C21_Witness ==
    \E p \in DOMAIN logged_observation_count :
        /\ logged_observation_count[p] = 3
        /\ Len(deliveredIdx[p]) = 2
        /\ \E i, j, k \in 1 .. 3 :
               /\ OwnAction(p, observations[p][i])
               /\ observations[p][j][3] = PLAYER_ACTION /\ observations[p][j][1] # p
               /\ observations[p][k][3] # PLAYER_ACTION /\ observations[p][k][1] = p
               /\ j \in PositionsIn(deliveredIdx[p])
               /\ k \in PositionsIn(deliveredIdx[p])

\* the positions of the log at which the call (with the key) was made
Calls(call, key) ==
    { i \in DOMAIN log : log[i].call = call /\ log[i].key = key }

\* each of the calls was made exactly once
OnceEach(calls) == \A c \in calls : Cardinality(Calls(c[1], c[2])) = 1

\* the (only) position of the call
At(call, key) == CHOOSE i \in Calls(call, key) : TRUE

\* C22: a session that reached done through step() has logged ta_reward and
\* ta_reward_details exactly once each, with the two values close() returned,
\* after the call of close() and before _on_after_game and the game-end
\* entry.
C22_RewardKeysLoggedOnce ==
    done =>
        /\ OnceEach({ <<"log_key", "ta_reward">>, <<"log_key", "ta_reward_details">>,
                      <<"env.close", "">>, <<"_on_after_game", "">>,
                      <<"log_game_end", "">> })
        /\ log[At("log_key", "ta_reward")].value = rewards[1]
        /\ \A p \in DOMAIN rewards[2] :
               LET logged == log[At("log_key", "ta_reward_details")].value[p]
               IN  /\ logged.invalid_move = rewards[2][p].invalid_move
                   /\ logged.reason = rewards[2][p].reason
        /\ At("env.close", "") < At("log_key", "ta_reward")
        /\ At("env.close", "") < At("log_key", "ta_reward_details")
        /\ At("log_key", "ta_reward") < At("_on_after_game", "")
        /\ At("log_key", "ta_reward_details") < At("_on_after_game", "")
        /\ At("_on_after_game", "") < At("log_game_end", "")

\* the calls and log entries the transition adds
Added == SubSeq(log', Len(log) + 1, Len(log'))

\* C23: a step that returns done = True calls close(), then logs one
\* end-of-game event whose content is '[GAME] ' followed by the reason in the
\* details of last_player, then logs the rewards and runs the outcome hook;
\* last_player is the agent that was current when play() or the setup hook
\* made the step, the agent whose action it was.
C23_EndOfGameOrder ==
    [][ (StepReturned /\ done') =>
            LET added  == Added
                at(c)  == { i \in DOMAIN added : added[i].call = c }
                keys   == { i \in at("log_key") : added[i].key = "ta_reward" }
                others == { i \in at("log_key") : added[i].key = "ta_reward_details" }
            IN  /\ at("env.step") = {1}
                /\ at("env.close") = {3}
                /\ at("log_event") = {4}
                /\ added[4].value = <<"[GAME] ">> \o rewards'[2][last_player'].reason
                /\ pc = "step" => last_player' = lastStep'.actor
                /\ keys # {} /\ others # {} /\ at("_on_after_game") # {}
                /\ \A i \in keys : i > 4 /\ added[i].value = rewards'[1]
                /\ \A i \in keys \cup others : \A k \in at("_on_after_game") : i < k
                /\ \A i \in at("log_to_self") : i > 4 ]_vars

\* the second player of a two-player game made the final step: the
\* end-of-game event carries its reason
C23_Witness ==
    /\ done
    /\ numPlayers = 2
    /\ lastStep.kind = "returned" /\ lastStep.done /\ lastStep.actor = 1
    /\ last_player = 1
    /\ \E i \in Calls("log_event", ToString(current_player_id)) :
           log[i].value = <<"[GAME] ">> \o rewards[2][1].reason

\* C24: every environment step of play() comes right after one observation
\* for the agent that is current and one invocation of that same agent, in
\* this order, and passes that agent's response; the move check follows the
\* environment step at once, ahead of the next observation, and the done
\* flag is the one the step returned.
C24_TurnOrder ==
    [][ /\ \A i \in DOMAIN log' :
               (log'[i].call = "env.step" /\ log'[i].key = "play") =>
                   /\ i > 2
                   /\ log'[i - 2].call = "observe"
                   /\ log'[i - 1].call = "player"
                   /\ log'[i - 2].value = log'[i - 1].value
                   /\ log'[i].value = <<"response of ", ToString(log'[i - 1].value)>>
        /\ (envSteps' = envSteps + 1 /\ Caller = "play") =>
               /\ log[Len(log)] = Entry("player", "", current_player_id)
               /\ Added[1] = Entry("env.step", "play", response)
        /\ StepReturned =>
               /\ Added[2].call = "_check_move_validity"
               /\ done' = lastStep'.done
        /\ \A i \in DOMAIN log' :
               (i > 1 /\ log'[i].call = "observe") => log'[i - 1].call # "env.step" ]_vars

\* the second turn of play() in a two-player game: observation, invocation
\* and step of the second player after the first player's turn
C24_Witness ==
    /\ numPlayers = 2
    /\ Len(log) >= 4
    /\ \E i \in DOMAIN log :
           /\ i > 3
           /\ log[i].call = "env.step" /\ log[i].key = "play"
           /\ log[i - 1].call = "player" /\ log[i - 1].value = 1
           /\ \E j \in 1 .. (i - 3) : log[j].call = "env.step" /\ log[j].key = "play"
           /\ i < Len(log) /\ log[i + 1].call = "_check_move_validity"

\* C25: a session calls env.reset exactly once, in setup(), ahead of every
\* environment step - the step MinesweeperMaster's _on_before_game makes
\* during setup included; before setup() there is neither.
C25_ResetOnceBeforeSteps ==
    IF started
        THEN /\ Cardinality(Calls("env.reset", "")) = 1
             /\ \A i \in DOMAIN log :
                    log[i].call = "env.step" => At("env.reset", "") < i
             /\ At("env.reset", "") < At("_on_before_game", "")
        ELSE \A i \in DOMAIN log : log[i].call \notin {"env.reset", "env.step"}

\* MinesweeperMaster's forced step was made, and a step of play() after it
C25_Witness ==
    /\ master = "MinesweeperMaster"
    /\ Calls("env.step", "_on_before_game") # {}
    /\ Calls("env.step", "play") # {}
    /\ Calls("env.reset", "") # {}

\* C26: constructing a benchmark for a game spec whose player count is
\* neither 1 nor 2 raises ValueError when the spec has no 'master', and when
\* it has a 'master' but no 'scorer'; then no master or scorer class is
\* selected and no instance file generated. A spec of 1 or 2 players gets
\* SinglePlayerMaster/SinglePlayerScorer or TwoPlayerMaster/TwoPlayerScorer
\* for the class it does not name.
C26_MultiPlayerNeedsMaster ==
    [][ (benchmark' # NoBenchmark) =>
            LET game_spec == benchmark'.game_spec
                single    == game_spec.players = 1
            IN  /\ (game_spec.players \notin {1, 2}
                     /\ (game_spec.master = Absent \/ game_spec.scorer = Absent)) =>
                        /\ benchmark'.raised = "ValueError"
                        /\ benchmark'.master_class = Unselected
                        /\ benchmark'.scorer_class = Unselected
                        /\ instance_files' = instance_files
                /\ (game_spec.players \in {1, 2}
                     /\ game_spec.master = Absent /\ game_spec.scorer = Absent) =>
                        /\ benchmark'.raised \notin {"ValueError", "KeyError"}
                        /\ benchmark'.master_class =
                               IF single THEN "SinglePlayerMaster" ELSE "TwoPlayerMaster"
                        /\ benchmark'.scorer_class =
                               IF single THEN "SinglePlayerScorer" ELSE "TwoPlayerScorer"
                /\ (game_spec.players \in {1, 2} /\ game_spec.master = Absent) =>
                        benchmark'.master_class =
                            IF single THEN "SinglePlayerMaster" ELSE "TwoPlayerMaster"
                /\ (game_spec.players \in {1, 2} /\ game_spec.scorer = Absent
                     /\ benchmark'.raised # "KeyError") =>
                        benchmark'.scorer_class =
                            IF single THEN "SinglePlayerScorer" ELSE "TwoPlayerScorer" ]_vars

\* a three-player spec that names a master and no scorer was refused, its
\* instance file missing and not generated
C26_Witness ==
    /\ benchmark.raised = "ValueError"
    /\ benchmark.game_spec.players = 3
    /\ benchmark.game_spec.master = "WordChainsMaster"
    /\ benchmark.game_spec.scorer = Absent
    /\ benchmark.game_spec.entry_point
    /\ benchmark.game_spec.instances \notin instance_files

\* play() has returned or an error has left it
Terminated == pc \in {"returned", "aborted"}

\* C27: when every invocation returns and the environment ends its episode,
\* play() eventually terminates with is_done() true and close() called; it
\* returns only when the environment said done, and a step that did not end
\* the episode - a rejected move to be retried included - always leads to
\* the next turn.
C27_PlayTerminates ==
    /\ <>(Terminated /\ done /\ closeCalls >= 1)
    /\ [](pc = "returned" => (done /\ envDone))
    /\ [][(StepReturned /\ ~done') => pc' = "observe"]_vars

\* play() returned after a turn whose move was rejected and retried
C27_Witness ==
    /\ pc = "returned"
    /\ done
    /\ closeCalls = 1
    /\ violated_request_count >= 1
    /\ envSteps >= 2

\* the list continues what the other list holds
Extends(longer, shorter) ==
    /\ Len(longer) >= Len(shorter)
    /\ SubSeq(longer, 1, Len(shorter)) = shorter

\* C28: once the session is set up, only an environment step changes the
\* observation lists and the current-player id: observing, invoking and
\* whatever else happens between two steps leaves them as they are, and a
\* step, with its move check and end-of-game handling, leaves in every list
\* all that was there and only adds to it.
C28_ListsAndTurnReadOnly ==
    [][ started =>
            /\ envSteps' = envSteps =>
                   /\ observations' = observations
                   /\ current_player_id' = current_player_id
            /\ \A p \in DOMAIN observations :
                   Extends(observations'[p], observations[p]) ]_vars

\* between two environment steps: a player with events in its list was
\* observed and invoked after an earlier step
C28_Witness ==
    /\ pc = "step"
    /\ envSteps >= 1
    /\ ~envDone
    /\ Len(observations[current_player_id]) >= 2
    /\ logged_observation_count[current_player_id] = Len(observations[current_player_id])

\* C29: an environment step raises the request-violation count by at most
\* one, also when it is the final step of the episode.
C29_OneViolationPerStep ==
    [][ envSteps' = envSteps + 1 =>
            violated_request_count' <= violated_request_count + 1 ]_vars

\* the calls of a setup() that registers the agents 0 .. N-1
SetupOrder ==
    << "ta.make", "ClemObservationWrapper", "_on_before_reset", "env.reset" >>
    \o [k \in 1 .. numPlayers |-> "add_player"]
    \o << "_on_before_game" >>

\* C30: setup() creates and wraps the environment, runs _on_before_reset,
\* resets the environment, registers the agents 0 .. N-1 in order and runs
\* _on_before_game, all ahead of the first turn; a session that is done has
\* run _on_after_game once, after close() and the two reward keys and ahead
\* of the game-end entry.
C30_HookOrder ==
    /\ started =>
           /\ Len(log) >= Len(SetupOrder)
           /\ \A i \in DOMAIN SetupOrder : log[i].call = SetupOrder[i]
           /\ \A k \in 1 .. numPlayers : log[4 + k].value = k - 1
           /\ \A i \in DOMAIN log :
                  log[i].call \in {"observe", "player", "perceive_context", "env.step"}
                      => i > Len(SetupOrder)
    /\ ~started => log = <<>>
    /\ done =>
           /\ Cardinality(Calls("_on_after_game", "")) = 1
           /\ \E c \in Calls("env.close", ""), r \in Calls("log_key", "ta_reward"),
                 d \in Calls("log_key", "ta_reward_details"),
                 e \in Calls("log_game_end", "") :
                  /\ c < r /\ c < d
                  /\ r < At("_on_after_game", "") /\ d < At("_on_after_game", "")
                  /\ At("_on_after_game", "") < e

\* C31: a TwoPlayerMaster session that is done has logged its metrics, and
\* they follow the invalid_move flag in the close-time details of the last
\* actor alone: Aborted = 1, Success = 0, Lose = 1 when it is set, Aborted =
\* 0, Success = 1, Lose = 0 when it is not, whatever the rewards are.
C31_TwoPlayerMetricsByInvalidMove ==
    (master = "TwoPlayerMaster" /\ done) =>
        metrics = IF rewards[2][last_player].invalid_move
                      THEN [aborted |-> 1, success |-> 0, lose |-> 1]
                      ELSE [aborted |-> 0, success |-> 1, lose |-> 0]

\* the last actor of a two-player game lost by an invalid move of the other
\* player: its reward is -1, its own invalid_move flag is not set
C31_Witness ==
    /\ master = "TwoPlayerMaster"
    /\ done
    /\ rewards[1][last_player] = -1
    /\ ~rewards[2][last_player].invalid_move
    /\ metrics.success = 1

\* C32: whatever the master class and whatever close() returned, the hook
\* logs Aborted, Success and Lose, each 0 or 1; Success and Lose are not
\* both 1, and Aborted = 1 comes with Lose = 1 and Success = 0.
C32_MetricsWellFormed ==
    log # <<>> =>
        /\ metrics.aborted \in {0, 1}
        /\ metrics.success \in {0, 1}
        /\ metrics.lose \in {0, 1}
        /\ ~(metrics.success = 1 /\ metrics.lose = 1)
        /\ metrics.aborted = 1 => (metrics.lose = 1 /\ metrics.success = 0)

\* the hook of a single-player master logged an aborted game
C32_Witness ==
    /\ log # <<>>
    /\ BaseOf(master) = "SinglePlayerMaster"
    /\ metrics.aborted = 1
    /\ metrics.lose = 1

\* C33: the move check of a step leaves every delivery cursor alone, and
\* outside a step checked_observations does not change; so an observation
\* call still delivers every pending event that carries the marker, whether
\* the move check has read it or not.
C33_IndependentCursors ==
    [][ started =>
            /\ envSteps' = envSteps + 1 =>
                   logged_observation_count' = logged_observation_count
            /\ envSteps' = envSteps =>
                   checked_observations' = checked_observations
            /\ ObservationCall =>
                   LET p == current_player_id
                   IN  \A i \in (logged_observation_count[p] + 1) .. Len(observations[p]) :
                           HasMarker(observations[p][i][2]) =>
                               i \in PositionsIn(deliveredIdx'[p]) ]_vars

\* an agent was delivered a marker event the move check had read before
C33_Witness ==
    \E p \in DOMAIN checked_observations :
        \E i \in PositionsIn(deliveredIdx[p]) :
            /\ HasMarker(observations[p][i][2])
            /\ i <= checked_observations[p]

\* C34: a step never moves a violation-check cursor back nor past the end
\* of its agent's list, and it raises the violation flag only for a marker
\* event that this very step appended to an agent's list, never for one an
\* earlier step appended.
C34_MarkerFlaggedOnlyWhenAppended ==
    [][ StepReturned =>
            /\ \A p \in DOMAIN checked_observations :
                   /\ checked_observations'[p] >= checked_observations[p]
                   /\ checked_observations'[p] <= Len(observations'[p])
            /\ request_violation' =>
                   \E p \in DOMAIN observations' :
                       \E i \in (Len(observations[p]) + 1) .. Len(observations'[p]) :
                           HasMarker(observations'[p][i][2]) ]_vars

\* C35: after setup() the registered agent ids - the keys of players_by_id
\* other than the GM's - are exactly 0 .. N-1, N being the number of players
\* the environment was reset for and the observation cursors were made for,
\* whatever player_specs the instance carries.
C35_RosterComplete ==
    started =>
        /\ players_by_id \ {GM_ID} = 0 .. (numPlayers - 1)
        /\ DOMAIN logged_observation_count = 0 .. (numPlayers - 1)

\* C36: the end-of-game event a done step logs is addressed to the agent
\* that acted last: the environment's current player at that moment, whom
\* the event names as recipient, is last_player, whose reason it carries.
C36_EndEventToLastActor ==
    [][ (StepReturned /\ done') =>
            LET added == Added
            IN  \A i \in DOMAIN added :
                    added[i].call = "log_event" =>
                        /\ added[i].key = ToString(last_player')
                        /\ current_player_id' = last_player' ]_vars

\* the forced step of MinesweeperMaster._on_before_game is being taken
HookStep == master = "MinesweeperMaster" /\ inHook /\ envSteps' = envSteps + 1

\* C37: MinesweeperMaster's setup makes exactly one environment step, the
\* first of the session, with the action '[rows//2 cols//2]' for the only
\* agent; the step runs the move check and records the agent as last actor,
\* a round completes, and play() begins with an empty acted-set, done =
\* False and the agent's initial events delivered; every later step is one
\* of play().
C37_ForcedFirstMove ==
    [][ /\ HookStep =>
               LET added == Added
               IN  /\ envSteps = 0
                   /\ added[1] = Entry("env.step", "_on_before_game",
                                       <<"[", "rows//2", " ", "cols//2", "]">>)
                   /\ Len(added) >= 2 /\ added[2].call = "_check_move_validity"
                   /\ lastStep'.actor = 0
                   /\ last_player' = 0
                   /\ logged_observation_count'[0] = Len(observations[0])
                   /\ current_round' = current_round + 1
                   /\ played_in_round' = {}
                   /\ ~done'
                   /\ pc' = "observe" /\ ~inHook'
        /\ (master = "MinesweeperMaster" /\ ~inHook /\ envSteps' = envSteps + 1) =>
               envSteps >= 1 ]_vars

\* C38: reward_for_player(rewards, p) leaves the reward map and the
\* details map as they are; it returns rewards[0][p] when p is a key of both
\* maps, whatever the invalid_move flag says, and raises an AssertionError
\* when p is missing from either; a second call with the same input gives
\* what the first gave.
C38_RewardIsPureRead ==
    [][ (rewards # <<>> /\ log' # log) =>
            /\ rewards' = rewards
            /\ \A i \in DOMAIN log' :
                   LET p == log'[i].value.player
                   IN  IF p \in DOMAIN rewards[1] /\ p \in DOMAIN rewards[2]
                           THEN /\ log'[i].key = "returned"
                                /\ log'[i].value.result = rewards[1][p]
                           ELSE log'[i].key = "AssertionError"
            /\ \A i, j \in DOMAIN log' :
                   log'[i].value.player = log'[j].value.player => log'[i] = log'[j] ]_vars

\* the reward of a player whose move was invalid was returned twice, as it
\* is in the map
C38_Witness ==
    /\ Len(log) = 2
    /\ log[1].call = "reward_for_player"
    /\ log[1].key = "returned"
    /\ log[2] = log[1]
    /\ rewards[2][log[1].value.player].invalid_move
    /\ log[1].value.result = 1

\* the verdicts of a results dict, as (game, model, verdict)
StoredIn(results) ==
    UNION { { <<g, m, results[g][m]>> : m \in DOMAIN results[g] } :
            g \in DOMAIN results }

\* the verdicts in the results file, none when the file is not there
ResultsFile(fs) == IF OUT_FILE \in DOMAIN fs THEN StoredIn(fs[OUT_FILE]) ELSE {}

\* this step is a pass of the loop that called test_determinism
TestRun == Len(check'.tested) = Len(check.tested) + 1

\* C39: check_games, called with a results file, runs test_determinism for
\* a (game, model) pair that has an entry in the file only when overwrite is
\* set; no step of it removes or changes the verdict the file holds for any
\* other pair; the pass of the loop that runs a pair and gets a verdict
\* leaves that boolean in the file for the pair, before the next game is
\* looked at; a run that raised leaves the file and the dict as they were
\* and the loop goes on to the next game spec. Called without a results file
\* it writes nothing.
C39_ResultsFileKept ==
    [][ LET before == ResultsFile(files)
            after  == ResultsFile(files')
        IN  /\ ~TestRun => after = before
            /\ TestRun =>
                 LET game    == GameSpec
                     model   == check.model
                     outcome == check'.tested[Len(check'.tested)].outcome
                     others(stored) == { t \in stored :
                                           t[1] # game \/ t[2] # model }
                     ofPair(stored) == { t[3] : t \in stored \ others(stored) }
                 IN  /\ check'.tested[Len(check'.tested)].game = game
                     /\ (check.out_file # "" /\ ~check.overwrite) =>
                            ofPair(before) = {}
                     /\ others(after) = others(before)
                     /\ (check.out_file # "" /\ outcome # "raised") =>
                            /\ ofPair(after) = {outcome = "passed"}
                            /\ existing_results' = files'[OUT_FILE]
                     /\ outcome = "raised" =>
                            /\ files' = files
                            /\ existing_results' = existing_results
                     /\ check.out_file = "" => files' = files
                     /\ check'.pc = "loop"
                     /\ check'.next = check.next + 1 ]_vars

\* a call without overwrite that skipped wordle, tested for "mock" before,
\* ran battleship and recorded its verdict next to the one of "gpt"
C39_Witness ==
    /\ check.pc = "returned"
    /\ ~check.overwrite
    /\ check.model = "mock"
    /\ check.game_specs = <<"wordle", "battleship">>
    /\ check.tested = <<[game |-> "battleship", outcome |-> "failed"]>>
    /\ ResultsFile(files) = {<<"wordle", "mock", TRUE>>,
                             <<"battleship", "gpt", TRUE>>,
                             <<"battleship", "mock", FALSE>>}

====
